---- MODULE Spec2Model ----
(***************************************************************************)
(* Model of src/src/uuid.ts: the UniqueID class (constructor, generate,    *)
(* testUniqueID, checkUniqueIDDuplicates, dupilcates).                     *)
(*                                                                         *)
(* Representation of JavaScript values:                                    *)
(*   - a string is a sequence of one-character strings;                    *)
(*   - an integer-valued number that may exceed 32 bits (the timestamp,    *)
(*     the scaled random, the result of Number()) is the sequence of its   *)
(*     decimal digits, most significant first, without leading zeros       *)
(*     (zero is <<0>>);                                                    *)
(*   - an optional argument is <<>> (undefined) or <<v>>;                  *)
(*   - a value of type string | number is                                  *)
(*     [t |-> "string", chars |-> chars] or                                *)
(*     [t |-> "number", digits |-> digits].                                *)
(***************************************************************************)
EXTENDS Integers, Sequences, FiniteSets, TLC

VARIABLES
    given,    \* given[g]: the arguments generator g was constructed with
    prefix,   \* prefix[g]: the readonly field this.prefix of generator g
    type,     \* type[g]: the readonly field this.type of generator g
    pc,       \* "idle", "test" (inside testUniqueID's loop) or "returned"
    last,     \* the call that returned last, its arguments and its outcome
    testGen,  \* the generator whose testUniqueID is running
    i,        \* testUniqueID's loop counter
    ids,      \* testUniqueID's set of identifiers
    seen      \* the identifiers testUniqueID generated so far, in order

vars == <<given, prefix, type, pc, last, testGen, i, ids, seen>>

(***************************************************************************)
(* Bounds of the model.                                                    *)
(***************************************************************************)
\* generate is called with the lengths -NegLens .. SmallLen, with those
\* around the default (16) and the exact range of a double, and with BigLen
NegLens == 2
SmallLen == 3
\* a length beyond the longest source string (2 + 1 + 32 + 13 + 18 + 3)
BigLen == 70
\* the longest array passed to dupilcates
MaxArrayLen == 4
\* iterations of testUniqueID's loop (100000 in the source, scaled down)
TestCount == 3

(***************************************************************************)
(* Strings and numbers.                                                    *)
(***************************************************************************)
DigitChars == <<"0", "1", "2", "3", "4", "5", "6", "7", "8", "9">>

DigitChar(d) == DigitChars[d + 1]

CharDigit(c) == CHOOSE d \in 0..9 : DigitChars[d + 1] = c

RECURSIVE NatToDigits(_)
\* the decimal digits of a natural number
NatToDigits(n) ==
    IF n < 10 THEN <<n>> ELSE Append(NatToDigits(n \div 10), n % 10)

\* `${n}` for a non-negative integer number below 1e21: its decimal digits
FormatDigits(ds) == <<>> \o [k \in 1..Len(ds) |-> DigitChar(ds[k])]

FormatNat(n) == FormatDigits(NatToDigits(n))

\* the canonical digits of the value of a digit sequence: no leading zeros
StripZeros(ds) ==
    IF \A k \in 1..Len(ds) : ds[k] = 0 THEN <<0>>
    ELSE LET first == CHOOSE k \in 1..Len(ds) :
                          ds[k] # 0 /\ \A j \in 1..(k - 1) : ds[j] = 0
         IN  SubSeq(ds, first, Len(ds))

\* a < b for canonical digit sequences
BigLess(a, b) ==
    \/ Len(a) < Len(b)
    \/ /\ Len(a) = Len(b)
       /\ \E k \in 1..Len(a) :
              a[k] < b[k] /\ \A j \in 1..(k - 1) : a[j] = b[j]

BigIsOdd(a) == a[Len(a)] % 2 = 1

(***************************************************************************)
(* Arithmetic on digit sequences.  An operand is bound to its value with   *)
(* CHOOSE x \in {e} before it is used, so that it is evaluated once.       *)
(***************************************************************************)
RECURSIVE DivFrom(_, _, _, _)
\* long division of the digits ds[j..] by m, with the carry from the left
DivFrom(ds, m, j, carry) ==
    IF j > Len(ds) THEN <<>>
    ELSE CHOOSE out \in
             {<<cur \div m>> \o DivFrom(ds, m, next, cur % m) :
                  cur \in {carry * 10 + ds[j]}, next \in {j + 1}} : TRUE

\* floor(a / m) for 0 < m <= 2^16
BigDiv(a, m) ==
    CHOOSE out \in {StripZeros(DivFrom(v, m, 1, 0)) : v \in {a}} : TRUE

RECURSIVE MulAddFrom(_, _, _, _)
\* m * (the digits ds[1..j]) + carry, digit by digit from the right
MulAddFrom(ds, m, j, carry) ==
    IF j = 0 THEN NatToDigits(carry)
    ELSE CHOOSE out \in
             {Append(MulAddFrom(ds, m, next, cur \div 10), cur % 10) :
                  cur \in {m * ds[j] + carry}, next \in {j - 1}} : TRUE

\* m * a for 0 < m <= 2^16
BigMul(a, m) ==
    CHOOSE out \in {StripZeros(MulAddFrom(v, m, Len(v), 0)) : v \in {a}} : TRUE

\* a + 1
BigInc(a) ==
    CHOOSE out \in {StripZeros(MulAddFrom(v, 1, Len(v), 1)) : v \in {a}} : TRUE

\* 2^53: below it every integer is a double
TwoPow53 == <<9, 0, 0, 7, 1, 9, 9, 2, 5, 4, 7, 4, 0, 9, 9, 2>>

RECURSIVE BigShiftLeft(_, _)
\* a * 2^k, at most 16 bits at a time
BigShiftLeft(a, k) ==
    IF k = 0 THEN a
    ELSE IF k < 16 THEN BigMul(a, 2 ^ k)
    ELSE CHOOSE out \in
             {BigShiftLeft(v, rest) :
                  v \in {BigMul(a, 2 ^ 16)}, rest \in {k - 16}} : TRUE

RECURSIVE BigShiftRight(_, _)
\* floor(a / 2^k), at most 16 bits at a time
BigShiftRight(a, k) ==
    IF k = 0 THEN a
    ELSE IF k < 16 THEN BigDiv(a, 2 ^ k)
    ELSE CHOOSE out \in
             {BigShiftRight(v, rest) :
                  v \in {BigDiv(a, 2 ^ 16)}, rest \in {k - 16}} : TRUE

RECURSIVE BitLength(_)
\* the number of bits of a: the least n with a < 2^n
BitLength(a) ==
    IF a = <<0>> THEN 0
    ELSE IF BigLess(a, <<6, 5, 5, 3, 6>>)
    THEN CHOOSE n \in {1 + BitLength(v) : v \in {BigDiv(a, 2)}} : TRUE
    ELSE CHOOSE n \in {16 + BitLength(v) : v \in {BigDiv(a, 2 ^ 16)}} : TRUE

\* n rounded to a multiple of 2^shift, to nearest, ties to even: quot is
\* floor(n / 2^shift) and half is floor(n / 2^(shift - 1)), whose last bit
\* is the first bit dropped
RoundShifted(n, shift, quot, half) ==
    IF /\ BigIsOdd(half)
       /\ (BigShiftLeft(half, shift - 1) # n \/ BigIsOdd(quot))
    THEN BigShiftLeft(BigInc(quot), shift)
    ELSE BigShiftLeft(quot, shift)

\* n with its low shift bits rounded away
RoundBits(n, shift) ==
    CHOOSE out \in
        {RoundShifted(n, shift, quot, half) :
             quot \in {BigShiftRight(n, shift)},
             half \in {BigShiftRight(n, shift - 1)}} : TRUE

\* the double nearest to a natural number (a natural number again): the
\* value keeps a 53-bit significand, rounded to nearest, ties to even
RoundToDouble(n) ==
    IF BigLess(n, TwoPow53) THEN n
    ELSE CHOOSE out \in
             {RoundBits(v, shift) :
                  v \in {n}, shift \in {BitLength(n) - 53}} : TRUE

\* Number(s) for a string of decimal digits: the empty string is 0
ToNumber(s) ==
    IF Len(s) = 0 THEN <<0>>
    ELSE RoundToDouble(
             StripZeros(<<>> \o [k \in 1..Len(s) |-> CharDigit(s[k])]))

Min(a, b) == IF a < b THEN a ELSE b

Max(a, b) == IF a > b THEN a ELSE b

\* s.substring(0, end) losing the last of the characters asked for
Substring0Short(s, end) ==
    IF end = <<>> THEN s
    ELSE SubSeq(s, 1, Min(Max(end[1] - 1, 0), Len(s)))

\* s.substring(0, end) with end an optional integer: undefined is the
\* length of s, a negative end is 0, an end past the string is its length
Substring0(s, end) ==
    IF end = <<>> THEN s
    ELSE SubSeq(s, 1, Min(Max(end[1], 0), Len(s)))

(***************************************************************************)
(* The inputs of the model.                                                *)
(***************************************************************************)
Str(s) == [t |-> "string", chars |-> s]

Num(n) == [t |-> "number", digits |-> n]

Generators == {"A", "B"}

\* the optional constructor arguments
PrefixArgs == {<<>>, <<<<>>>>, <<<<"a", "b">>>>, <<<<"c", "d">>>>}

TypeArgs == {<<>>, <<"string">>, <<"number">>}

\* the optional length argument of generate
LengthArgs ==
    {<<>>} \cup {<<n>> : n \in ((-NegLens)..SmallLen) \cup {15, 16, 17, BigLen}}

\* RandomBits(1)[0]: a byte
RandomBytes == {7, 255}

\* new Date().getTime(): milliseconds since the epoch
Timestamps == {<<1, 7, 6, 2, 3, 8, 5, 1, 1, 2, 2, 3, 3>>}

\* Math.floor((Math.random() * 100000000) * 0x100000000): below 2^32 * 10^8
ScaledRandoms ==
    {<<0>>, <<1, 2, 3, 4, 5, 6, 7, 8, 9, 0, 1, 2, 3, 4, 5, 6, 8, 0>>}

\* HexRandomBytes(16): 32 hexadecimal characters
HexStrings ==
    {<<"0", "f", "3", "a", "9", "c", "0", "0", "1", "b", "2", "d", "4", "e",
       "5", "6", "7", "8", "9", "a", "b", "c", "d", "e", "f", "0", "1", "2",
       "3", "4", "5", "6">>,
     <<"d", "e", "a", "d", "b", "e", "e", "f", "0", "1", "2", "3", "4", "5",
       "6", "7", "8", "9", "a", "b", "c", "d", "e", "f", "0", "0", "1", "1",
       "2", "2", "3", "3">>,
     <<"7", "7", "c", "1", "0", "0", "0", "0", "0", "0", "0", "0", "0", "0",
       "0", "0", "0", "0", "0", "0", "0", "0", "0", "0", "0", "0", "0", "0",
       "0", "0", "0", "1">>}

\* Math.floor(Math.random() * 1000000000)
Rs == {5, 999999999}

\* what one call of generate draws from the random sources and the clock
Inputs ==
    [rnd : RandomBytes, timestamp : Timestamps, randomNum : ScaledRandoms,
     uuid : HexStrings, r : Rs]

\* the draws of the calls testUniqueID makes: one value of the byte and of
\* the scaled random, which keeps the pool of identifiers of its loop small
TestInputs == {in \in Inputs : in.rnd = 255 /\ in.randomNum = <<0>>}

(***************************************************************************)
(* class UniqueID                                                          *)
(***************************************************************************)
\* constructor(prefix?, type?): the two readonly fields
UniqueID(prefixArg, typeArg) ==
    [prefix |-> IF prefixArg # <<>> /\ prefixArg[1] # <<>>
                THEN prefixArg[1] ELSE <<>>,
     type   |-> IF typeArg # <<>> THEN typeArg[1] ELSE "string"]

\* `length ? length : d`: undefined and 0 are falsy
LengthOr(length, d) ==
    IF length # <<>> /\ length[1] # 0 THEN length[1] ELSE d

\* new Array(n) throws a RangeError unless n is an array length; the upper
\* limit 2^32 - 1 is beyond the lengths of this model
ArrayLengthOk(n) == n >= 0

Return(v) == [kind |-> "return", value |-> v]

Throw(e) == [kind |-> "throw", error |-> e]

\* the template string of the "string" branch without its "_"
TextSourceNoSeparator(pfx, in) ==
    pfx \o in.uuid \o FormatDigits(in.timestamp)
        \o FormatDigits(in.randomNum) \o FormatNat(in.rnd)

\* the template string of the "string" branch
TextSource(pfx, in) ==
    IF pfx # <<>>
    THEN pfx \o <<"_">> \o in.uuid \o FormatDigits(in.timestamp)
             \o FormatDigits(in.randomNum) \o FormatNat(in.rnd)
    ELSE in.uuid \o FormatDigits(in.timestamp)
             \o FormatDigits(in.randomNum) \o FormatNat(in.rnd)

\* the template string of the "number" branch
NumberSource(in) ==
    FormatNat(in.r) \o FormatDigits(in.timestamp)
        \o FormatDigits(in.randomNum) \o FormatNat(in.rnd)

\* generate(length?) of a generator with the fields pfx and typ, drawing in.
\* The array val is allocated first; what the loop stores in it is never
\* read.
generate(pfx, typ, length, in) ==
    IF ~ArrayLengthOk(LengthOr(length, 8)) THEN Throw("RangeError")
    ELSE IF typ = "string"
    THEN Return(Str(Substring0(TextSource(pfx, in), <<LengthOr(length, 16)>>)))
    ELSE Return(Num(ToNumber(Substring0(NumberSource(in), length))))

\* === of two values of type string | number
StrictEquals(x, y) == x = y

\* the SameValueZero comparison of Set: it differs from === on NaN only,
\* which is no identifier
SameValueZero(x, y) == x = y

\* array.indexOf(element): the first index (from 0) holding it, or -1
IndexOf(array, element) ==
    IF \E k \in 1..Len(array) : StrictEquals(array[k], element)
    THEN (CHOOSE k \in 1..Len(array) :
              /\ StrictEquals(array[k], element)
              /\ \A j \in 1..(k - 1) : ~StrictEquals(array[j], element)) - 1
    ELSE -1

RECURSIVE SetFrom(_)
\* Array.from(new Set(array)): the distinct values in order of insertion
SetFrom(array) ==
    IF Len(array) = 0 THEN <<>>
    ELSE LET before == SetFrom(SubSeq(array, 1, Len(array) - 1))
             element == array[Len(array)]
         IN  IF \E k \in 1..Len(before) : SameValueZero(before[k], element)
             THEN before ELSE Append(before, element)

\* the template string with its two indices exchanged
CaseNoteSwapped(index, first) ==
    "Case " \o ToString(first) \o " and " \o ToString(index)
        \o " are duplicates"

\* the template string pushed to cases
CaseNote(index, first) ==
    "Case " \o ToString(index) \o " and " \o ToString(first)
        \o " are duplicates"

RECURSIVE CasesUpTo(_, _)
\* cases after the iterations 0 .. n - 1 of the loop over array
CasesUpTo(array, n) ==
    IF n = 0 THEN <<>>
    ELSE LET index == IndexOf(array, array[n])
         IN  IF index # n - 1
             THEN Append(CasesUpTo(array, n - 1), CaseNote(n - 1, index))
             ELSE CasesUpTo(array, n - 1)

RECURSIVE FilterFirstsUpTo(_, _)
\* the filter with its test inverted: it keeps the first occurrences
FilterFirstsUpTo(array, n) ==
    IF n = 0 THEN <<>>
    ELSE IF IndexOf(array, array[n]) = n - 1
         THEN Append(FilterFirstsUpTo(array, n - 1), array[n])
         ELSE FilterFirstsUpTo(array, n - 1)

RECURSIVE FilterUpTo(_, _)
\* array.filter((element, index) => array.indexOf(element) !== index),
\* over the first n elements
FilterUpTo(array, n) ==
    IF n = 0 THEN <<>>
    ELSE IF IndexOf(array, array[n]) # n - 1
         THEN Append(FilterUpTo(array, n - 1), array[n])
         ELSE FilterUpTo(array, n - 1)

\* the report with the two return statements exchanged
checkUniqueIDDuplicatesInverted(array, getCases) ==
    LET unique == SetFrom(array)
        cases == IF getCases THEN CasesUpTo(array, Len(array)) ELSE <<>>
        duplicates == FilterUpTo(array, Len(array))
    IN  [status |-> (Len(unique) # Len(array)),
         cases |-> cases,
         duplicates |-> duplicates]

\* checkUniqueIDDuplicates(array, getCases): the report
checkUniqueIDDuplicates(array, getCases) ==
    LET unique == SetFrom(array)
        cases == IF getCases THEN CasesUpTo(array, Len(array)) ELSE <<>>
        duplicates == FilterUpTo(array, Len(array))
    IN  [status |-> (Len(unique) = Len(array)),
         cases |-> cases,
         duplicates |-> duplicates]

dupilcates(array) == checkUniqueIDDuplicates(array, TRUE)

\* the values the arrays passed to dupilcates are made of: strings, a
\* number, and the string that prints like it
DupValues == <<Str(<<"a">>), Str(<<"b">>), Str(<<"1">>), Num(<<1>>)>>

RECURSIVE ChoicesOfLen(_)
\* the sequences of n positions of DupValues
ChoicesOfLen(n) ==
    IF n = 0 THEN {<<>>}
    ELSE {Append(c, k) : c \in ChoicesOfLen(n - 1), k \in 1..Len(DupValues)}

ArrayChoices == UNION {ChoicesOfLen(n) : n \in 0..MaxArrayLen}

\* the array that holds the chosen values
ArrayOf(c) == [k \in 1..Len(c) |-> DupValues[c[k]]]

(***************************************************************************)
(* The state machine.                                                      *)
(***************************************************************************)
NoCall == [op |-> "none"]

Init ==
    /\ given \in [Generators -> [prefix : PrefixArgs, type : TypeArgs]]
    /\ prefix = [g \in Generators |->
                    UniqueID(given[g].prefix, given[g].type).prefix]
    /\ type = [g \in Generators |->
                  UniqueID(given[g].prefix, given[g].type).type]
    /\ pc = "idle"
    /\ last = NoCall
    /\ testGen = "A"
    /\ i = 0
    /\ ids = {}
    /\ seen = <<>>

\* a call of g.generate(length) from its caller
Generate(g, length, in) ==
    /\ pc = "idle"
    /\ pc' = "returned"
    /\ last' = [op |-> "generate", g |-> g, length |-> length, in |-> in,
                out |-> generate(prefix[g], type[g], length, in)]
    /\ UNCHANGED <<given, prefix, type, testGen, i, ids, seen>>

\* the caller has taken the outcome of the last call
Collect ==
    /\ pc = "returned"
    /\ pc' = "idle"
    /\ last' = NoCall
    /\ UNCHANGED <<given, prefix, type, testGen, i, ids, seen>>

\* a call of g.dupilcates(array); it reads no field of g
Dupilcates(g, array) ==
    /\ pc = "idle"
    /\ pc' = "returned"
    /\ last' = [op |-> "dupilcates", g |-> g, array |-> array,
                out |-> dupilcates(array)]
    /\ UNCHANGED <<given, prefix, type, testGen, i, ids, seen>>

\* a call of g.testUniqueID(): the set is empty and the loop starts at 0
TestStart(g) ==
    /\ pc = "idle"
    /\ pc' = "test"
    /\ testGen' = g
    /\ i' = 0
    /\ ids' = {}
    /\ seen' = <<>>
    /\ UNCHANGED <<given, prefix, type, last>>

TestReturn(ret, generated) ==
    /\ pc' = "returned"
    /\ last' = [op |-> "testUniqueID", g |-> testGen, ret |-> ret,
                generated |-> generated]
    /\ i' = 0
    /\ ids' = {}
    /\ seen' = <<>>

\* one iteration of the loop without the test of ids.has(id)
TestIterateNoShortCircuit(in) ==
    /\ pc = "test"
    /\ i < TestCount
    /\ LET id == generate(prefix[testGen], type[testGen], <<>>, in).value
       IN  /\ ids' = ids \cup {id}
           /\ seen' = Append(seen, id)
           /\ i' = i + 1
           /\ UNCHANGED <<pc, last>>
    /\ UNCHANGED <<given, prefix, type, testGen>>

\* one iteration of the loop: generate() without a length, then either
\* return false or add the identifier
TestIterate(in) ==
    /\ pc = "test"
    /\ i < TestCount
    /\ LET id == generate(prefix[testGen], type[testGen], <<>>, in).value
       IN  IF \E x \in ids : SameValueZero(x, id)
           THEN TestReturn(FALSE, Append(seen, id))
           ELSE /\ ids' = ids \cup {id}
                /\ seen' = Append(seen, id)
                /\ i' = i + 1
                /\ UNCHANGED <<pc, last>>
    /\ UNCHANGED <<given, prefix, type, testGen>>

\* the loop condition fails: return true
TestFinish ==
    /\ pc = "test"
    /\ ~(i < TestCount)
    /\ TestReturn(TRUE, seen)
    /\ UNCHANGED <<given, prefix, type, testGen>>

Next ==
    \/ \E g \in Generators, length \in LengthArgs, in \in Inputs :
           Generate(g, length, in)
    \/ Collect

Spec == Init /\ [][Next]_vars

\* dupilcates reads no field: the generators are constructed without
\* arguments, as the wrapper UUID constructs them
DefaultArgs == [prefix |-> <<>>, type |-> <<>>]

DupInit == Init /\ given = [g \in Generators |-> DefaultArgs]

DupNext ==
    \/ \E g \in Generators, c \in ArrayChoices : Dupilcates(g, ArrayOf(c))
    \/ Collect

DupSpec == DupInit /\ [][DupNext]_vars

\* testUniqueID reads the fields of its own generator only: A is
\* constructed with any arguments, B without
TestInit == Init /\ given["B"] = DefaultArgs

TestNext ==
    \/ \E g \in Generators : TestStart(g)
    \/ \E in \in TestInputs : TestIterate(in)
    \/ TestFinish
    \/ Collect

TestSpec == TestInit /\ [][TestNext]_vars

\* testUniqueID is one synchronous call: once entered, its loop runs on
TestFairSpec ==
    /\ TestSpec
    /\ WF_vars(\E in \in TestInputs : TestIterate(in))
    /\ WF_vars(TestFinish)

(***************************************************************************)
(* Properties of generate, checked under Spec.                             *)
(***************************************************************************)
\* the last call is g.generate(length) of a generator of the given type
GenerateCalled(typ) == last.op = "generate" /\ type[last.g] = typ

\* the length of the last call is given and satisfies the bounds
LengthAtLeast(n) == last.length # <<>> /\ last.length[1] >= n

LengthAtMost(n) == last.length # <<>> /\ last.length[1] <= n

\* s begins with p
BeginsWith(s, p) ==
    Len(p) <= Len(s) /\ \A k \in 1..Len(p) : s[k] = p[k]

C2_NeverThrows ==
    last.op = "generate" => last.out.kind = "return"

\* C3: in text mode, generate(length) with length zero or negative returns
\* the empty string; only an unspecified length gives the default of 16
\* characters.  Stated of the calls that return, so that it does not depend
\* on C2.
C3_EmptyTextForNonPositive ==
    (GenerateCalled("string") /\ LengthAtMost(0)
         /\ last.out.kind = "return") =>
        Len(last.out.value.chars) = 0

\* C4: in numeric mode, generate(length) with length zero or negative, where
\* the truncated digit string is empty, fails with InvalidLength and never
\* returns zero or any other number.  Stated as its second half: such a call
\* returns no number.
C4_NoNumberForEmptyDigits ==
    (GenerateCalled("number") /\ LengthAtMost(0)) =>
        last.out.kind # "return"

\* the decimal digits of r, timestamp, scaledRandom and randomByte of the
\* draw, in that order
DrawnDigits(in) ==
    NatToDigits(in.r) \o in.timestamp \o in.randomNum \o NatToDigits(in.rnd)

\* the number written by the first n of these digits
FirstDigitsValue(in, n) ==
    StripZeros(SubSeq(DrawnDigits(in), 1, Min(n, Len(DrawnDigits(in)))))

GivenPrefix(g) ==
    IF given[g].prefix = <<>> THEN <<>> ELSE given[g].prefix[1]

\* the pre-truncation string the specification describes, from the constructor
\* argument of g and the draw
DescribedText(g, in) ==
    IF Len(GivenPrefix(g)) > 0
    THEN GivenPrefix(g) \o <<"_">> \o in.uuid \o FormatDigits(in.timestamp)
             \o FormatDigits(in.randomNum) \o FormatNat(in.rnd)
    ELSE in.uuid \o FormatDigits(in.timestamp)
             \o FormatDigits(in.randomNum) \o FormatNat(in.rnd)

\* C10: in text mode the string before truncation is prefix, "_", hexBytes,
\* timestamp, scaledRandom, randomByte in that order for a non-empty prefix
\* and hexBytes, timestamp, scaledRandom, randomByte for an empty one, the
\* prefix being the one the generator itself was constructed with; so a call
\* with length >= len(prefix) + 1 returns a string that begins with the
\* prefix and "_", and a call with a length that covers the whole string
\* returns exactly that string.
C10_TextComposition ==
    (GenerateCalled("string") /\ last.out.kind = "return") =>
        /\ BeginsWith(DescribedText(last.g, last.in), last.out.value.chars)
        /\ (LengthAtLeast(Len(DescribedText(last.g, last.in)))
               => Len(last.out.value.chars) = Len(DescribedText(last.g, last.in)))
        /\ (Len(GivenPrefix(last.g)) > 0
                /\ LengthAtLeast(Len(GivenPrefix(last.g)) + 1)
               => BeginsWith(last.out.value.chars, GivenPrefix(last.g) \o <<"_">>))

\* two generators with different prefixes; the second returned its own
\* prefix and the separator
C10_Witness ==
    /\ GivenPrefix("A") = <<"a", "b">>
    /\ GivenPrefix("B") = <<"c", "d">>
    /\ GenerateCalled("string")
    /\ last.g = "B"
    /\ last.length = <<3>>
    /\ last.out.kind = "return"
    /\ last.out.value.chars = <<"c", "d", "_">>

(***************************************************************************)
(* Properties of dupilcates, checked under DupSpec.  Indices count from 0  *)
(* as in the source; array[n + 1] is the element at index n.               *)
(***************************************************************************)
DuplicatesCalled == last.op = "dupilcates"

\* the indices of array whose value occurs at an earlier index
RepeatIndices(array) ==
    {n \in 0..(Len(array) - 1) :
         \E m \in 0..(n - 1) : array[m + 1] = array[n + 1]}

\* the first index at which the value at index n occurs
FirstIndex(array, n) ==
    CHOOSE m \in 0..n :
        /\ array[m + 1] = array[n + 1]
        /\ \A j \in 0..(m - 1) : array[j + 1] # array[n + 1]

RECURSIVE Ascending(_)
\* the members of a finite set of integers in increasing order
Ascending(S) ==
    IF S = {} THEN <<>>
    ELSE LET greatest == CHOOSE x \in S : \A y \in S : y <= x
         IN  Append(Ascending(S \ {greatest}), greatest)

\* how many positions of the sequence seq hold x
Occurrences(seq, x) == Cardinality({k \in 1..Len(seq) : seq[k] = x})

\* the text of the note for the indices n and m
NoteText(n, m) ==
    "Case " \o ToString(n) \o " and " \o ToString(m) \o " are duplicates"

\* C6: for every input sequence the status of the report is true exactly
\* when its duplicates list is empty; the empty sequence and every sequence
\* of distinct values give true, no duplicates and no notes.
C6_StatusIffNoDuplicates ==
    DuplicatesCalled =>
        /\ last.out.status = (Len(last.out.duplicates) = 0)
        /\ (RepeatIndices(last.array) = {} =>
                /\ last.out.status = TRUE
                /\ Len(last.out.duplicates) = 0
                /\ Len(last.out.cases) = 0)

\* the string "1" and the number 1 are distinct values: status true
C6_Witness ==
    /\ DuplicatesCalled
    /\ Len(last.array) = 2
    /\ last.array[1] = Str(<<"1">>)
    /\ last.array[2] = Num(<<1>>)
    /\ last.out.status = TRUE
    /\ Len(last.out.duplicates) = 0

\* C7: for every input sequence the duplicates list is, in input order, the
\* values at exactly the indices whose value occurs at an earlier index; so
\* a value that occurs k times in the input occurs k - 1 times in it.
C7_DuplicatesAreRepeats ==
    DuplicatesCalled =>
        /\ Len(last.out.duplicates) = Cardinality(RepeatIndices(last.array))
        /\ \A k \in 1..Len(last.out.duplicates) :
               last.out.duplicates[k] =
                   last.array[Ascending(RepeatIndices(last.array))[k] + 1]
        /\ \A n \in 1..Len(last.array) :
               Occurrences(last.out.duplicates, last.array[n]) =
                   Occurrences(last.array, last.array[n]) - 1

\* a value at the indices 0, 2 and 3 with another between: two duplicates
C7_Witness ==
    /\ DuplicatesCalled
    /\ Len(last.array) = 4
    /\ RepeatIndices(last.array) = {2, 3}
    /\ last.array[1] = last.array[4]
    /\ Len(last.out.duplicates) = 2
    /\ last.out.duplicates[1] = last.array[1]

\* C8: for every input sequence the cases list holds, in increasing order of
\* i, exactly one note "Case {i} and {j} are duplicates" for each index i
\* whose value first occurs at an index j different from i, and nothing
\* else; there are as many notes as duplicates, and each j is an index of
\* the input that holds the same value as index i.
C8_NotesNameFirstOccurrence ==
    DuplicatesCalled =>
        /\ Len(last.out.cases) = Cardinality(RepeatIndices(last.array))
        /\ Len(last.out.cases) = Len(last.out.duplicates)
        /\ \A k \in 1..Len(last.out.cases) :
               \E j \in 0..(Len(last.array) - 1) :
                   /\ j = FirstIndex(last.array,
                                     Ascending(RepeatIndices(last.array))[k])
                   /\ j # Ascending(RepeatIndices(last.array))[k]
                   /\ last.array[j + 1] =
                          last.array[Ascending(RepeatIndices(last.array))[k] + 1]
                   /\ last.out.cases[k] =
                          NoteText(Ascending(RepeatIndices(last.array))[k], j)

\* the notes of an array whose indices 2 and 3 repeat the indices 0 and 1
C8_Witness ==
    /\ DuplicatesCalled
    /\ Len(last.array) = 4
    /\ last.out.cases = <<"Case 2 and 0 are duplicates",
                          "Case 3 and 1 are duplicates">>

(***************************************************************************)
(* Properties of testUniqueID, checked under TestFairSpec.                 *)
(***************************************************************************)
\* no two positions of seq hold the same value
Distinct(seq) ==
    \A j \in 1..Len(seq) : \A k \in (j + 1)..Len(seq) : seq[j] # seq[k]

Range(seq) == {seq[k] : k \in 1..Len(seq)}

\* id is what generate() without a length returns for a generator of the
\* given type
DefaultIdentifier(id, typ) ==
    /\ id.t = typ
    /\ typ = "string" => Len(id.chars) = 16

\* inside the loop: one generate call per iteration, every identifier seen
\* is recorded, and no repeat has passed
TestLoopState ==
    pc = "test" =>
        /\ i = Len(seen)
        /\ i <= TestCount
        /\ ids = Range(seen)
        /\ Distinct(seen)

\* on return: false at the first identifier equal to an earlier one, which
\* is the last one generated; true only after TestCount distinct ones
TestReturnState ==
    last.op = "testUniqueID" =>
        /\ Len(last.generated) >= 1
        /\ Len(last.generated) <= TestCount
        /\ \A k \in 1..Len(last.generated) :
               DefaultIdentifier(last.generated[k], type[last.g])
        /\ (last.ret = FALSE =>
                /\ Distinct(SubSeq(last.generated, 1, Len(last.generated) - 1))
                /\ \E k \in 1..(Len(last.generated) - 1) :
                       last.generated[k] =
                           last.generated[Len(last.generated)])
        /\ (last.ret = TRUE =>
                /\ Len(last.generated) = TestCount
                /\ Distinct(last.generated))

\* C9: testUniqueID generates identifiers one at a time with default
\* parameters and records every one seen; it returns false at the first
\* identifier equal to an earlier one and generates none after it, returns
\* true only after all TestCount (100000 in the source) identifiers were
\* pairwise distinct, and always returns, after at most TestCount calls of
\* generate.
C9_VerifyUniqueness ==
    /\ [](TestLoopState /\ TestReturnState)
    /\ (pc = "test" ~> pc = "returned")

\* the second identifier generated repeated the first: false after 2 calls
C9_Witness ==
    /\ last.op = "testUniqueID"
    /\ last.ret = FALSE
    /\ Len(last.generated) = 2
    /\ last.generated[1] = last.generated[2]

====
